---- MODULE Spec2Model ----
(***************************************************************************)
(* examples/basic-chat-python/main.py: one chat request to the UniRoute    *)
(* API, its error handling and the rendering of the reply.                 *)
(*                                                                         *)
(* Text (a Python str, the response body, a printed line) is a sequence of *)
(* fragments; a fragment is an indivisible piece of text.  The glyphs that *)
(* open the program's messages are written by their names (:x:, :bulb:).   *)
(***************************************************************************)
EXTENDS Integers, Sequences, FiniteSets, TLC

(***************************************************************************)
(* Bounds of the input space.                                              *)
(***************************************************************************)
\* token counts of a usage record range over 0..MaxTokens
MaxTokens == 11
\* a choices array holds at most MaxChoices entries
MaxChoices == 2

(***************************************************************************)
(* Python values: None, str, int, list, dict.                              *)
(***************************************************************************)
PyNone == [t |-> "NoneType", s |-> <<>>, n |-> 0, keys |-> <<>>, items |-> <<>>]

PyStr(s) == [t |-> "str", s |-> s, n |-> 0, keys |-> <<>>, items |-> <<>>]

PyInt(n) == [t |-> "int", s |-> <<>>, n |-> n, keys |-> <<>>, items |-> <<>>]

PyList(items) == [t |-> "list", s |-> <<>>, n |-> 0, keys |-> <<>>, items |-> items]

PyDict(keys, items) == [t |-> "dict", s |-> <<>>, n |-> 0, keys |-> keys, items |-> items]

\* the position of key k in a dict's keys, 0 when it has none
KeyIndex(d, k) ==
  IF \E i \in 1..Len(d.keys) : d.keys[i] = k
  THEN CHOOSE i \in 1..Len(d.keys) : d.keys[i] = k
  ELSE 0

\* d[k] = v of a dict: a key already present keeps its place
DictSet(d, k, v) ==
  IF KeyIndex(d, k) = 0
  THEN PyDict(Append(d.keys, k), Append(d.items, v))
  ELSE PyDict(d.keys, [d.items EXCEPT ![KeyIndex(d, k)] = v])

\* needle in hay, of two str: needle occurs as a contiguous run of hay
Contains(needle, hay) ==
  \E i \in 0..(Len(hay) - Len(needle)) :
    SubSeq(hay, i + 1, i + Len(needle)) = needle

\* Truthy with a slip: only None counts as false ("if api_key is None")
TruthyUnlessNone(v) == v.t = "str"

\* bool(v) of None and of a str, the two values os.getenv returns
Truthy(v) == v.t = "str" /\ v.s # <<>>

(***************************************************************************)
(* Decimal text of a non-negative int, and back.                           *)
(***************************************************************************)
DigitChars == <<"0", "1", "2", "3", "4", "5", "6", "7", "8", "9">>

IsDigit(c) == \E i \in 1..10 : DigitChars[i] = c

DigitValue(c) == (CHOOSE i \in 1..10 : DigitChars[i] = c) - 1

RECURSIVE Digits(_)
Digits(n) ==
  IF n < 10 THEN <<DigitChars[n + 1]>>
  ELSE Append(Digits(n \div 10), DigitChars[(n % 10) + 1])

(***************************************************************************)
(* str(v) as an f-string renders it, and repr(v) for the members of a      *)
(* list or dict.                                                           *)
(***************************************************************************)
RECURSIVE Repr(_)
RECURSIVE ReprItems(_, _)
ReprItems(v, i) ==
  IF i > Len(v.items) THEN <<>>
  ELSE (IF i > 1 THEN <<", ">> ELSE <<>>)
       \o (IF v.t = "dict" THEN <<"'">> \o v.keys[i] \o <<"'", ": ">> ELSE <<>>)
       \o Repr(v.items[i])
       \o ReprItems(v, i + 1)

Repr(v) ==
  CASE v.t = "NoneType" -> <<"None">>
    [] v.t = "str" -> <<"'">> \o v.s \o <<"'">>
    [] v.t = "int" -> Digits(v.n)
    [] v.t = "list" -> <<"[">> \o ReprItems(v, 1) \o <<"]">>
    [] v.t = "dict" -> <<"{">> \o ReprItems(v, 1) \o <<"}">>

Format(v) == IF v.t = "str" THEN v.s ELSE Repr(v)

(***************************************************************************)
(* JSON text of a value, as the server writes a body.                      *)
(***************************************************************************)
RECURSIVE Encode(_)
RECURSIVE EncodeItems(_, _)
EncodeItems(v, i) ==
  IF i > Len(v.items) THEN <<>>
  ELSE (IF i > 1 THEN <<",">> ELSE <<>>)
       \o (IF v.t = "dict" THEN <<"\"">> \o v.keys[i] \o <<"\"", ":">> ELSE <<>>)
       \o Encode(v.items[i])
       \o EncodeItems(v, i + 1)

Encode(v) ==
  CASE v.t = "NoneType" -> <<"null">>
    [] v.t = "str" -> <<"\"">> \o v.s \o <<"\"">>
    [] v.t = "int" -> Digits(v.n)
    [] v.t = "list" -> <<"[">> \o EncodeItems(v, 1) \o <<"]">>
    [] v.t = "dict" -> <<"{">> \o EncodeItems(v, 1) \o <<"}">>

(***************************************************************************)
(* response.json(): the JSON decoder.  A result is [ok, val, rest, msg]:   *)
(* the value read and the text left, or the decoder's complaint (without   *)
(* the line and column that follow it in str(e)).                          *)
(***************************************************************************)
Parsed(v, rest) == [ok |-> TRUE, val |-> v, rest |-> rest, msg |-> <<>>]

ParseError(msg, rest) == [ok |-> FALSE, val |-> PyNone, rest |-> rest, msg |-> msg]

\* a string, after its opening quote: the fragments up to the closing quote
ParseString(t) ==
  IF \E i \in 1..Len(t) : t[i] = "\""
  THEN LET i == CHOOSE j \in 1..Len(t) :
                  t[j] = "\"" /\ \A k \in 1..(j - 1) : t[k] # "\""
       IN Parsed(PyStr(SubSeq(t, 1, i - 1)), SubSeq(t, i + 1, Len(t)))
  ELSE ParseError(<<"Unterminated string starting at">>, t)

\* the digits that follow the first of a number, most significant first
RECURSIVE ParseDigits(_, _)
ParseDigits(acc, t) ==
  IF t # <<>> /\ IsDigit(Head(t))
  THEN ParseDigits(acc * 10 + DigitValue(Head(t)), Tail(t))
  ELSE Parsed(PyInt(acc), t)

\* a number: 0, or a non-zero digit and the digits after it
ParseNumber(t) ==
  IF Head(t) = "0" THEN Parsed(PyInt(0), Tail(t))
  ELSE ParseDigits(DigitValue(Head(t)), Tail(t))

RECURSIVE ParseValue(_)
RECURSIVE ParseElements(_, _)
RECURSIVE ParseMembers(_, _)

\* the elements of an array after "[" or ",", acc the ones read so far
ParseElements(acc, t) ==
  LET e == ParseValue(t) IN
  IF ~e.ok THEN e
  ELSE IF e.rest = <<>> THEN ParseError(<<"Expecting ',' delimiter">>, e.rest)
  ELSE IF Head(e.rest) = "]"
       THEN Parsed(PyList(Append(acc, e.val)), Tail(e.rest))
  ELSE IF Head(e.rest) = ","
       THEN ParseElements(Append(acc, e.val), Tail(e.rest))
  ELSE ParseError(<<"Expecting ',' delimiter">>, e.rest)

\* the members of an object after "{" or ",", acc the dict read so far
ParseMembers(acc, t) ==
  IF t = <<>> \/ Head(t) # "\""
  THEN ParseError(<<"Expecting property name enclosed in double quotes">>, t)
  ELSE LET k == ParseString(Tail(t)) IN
  IF ~k.ok THEN k
  ELSE IF k.rest = <<>> \/ Head(k.rest) # ":"
       THEN ParseError(<<"Expecting ':' delimiter">>, k.rest)
  ELSE LET e == ParseValue(Tail(k.rest)) IN
  IF ~e.ok THEN e
  ELSE IF e.rest = <<>> THEN ParseError(<<"Expecting ',' delimiter">>, e.rest)
  ELSE IF Head(e.rest) = "}"
       THEN Parsed(DictSet(acc, k.val.s, e.val), Tail(e.rest))
  ELSE IF Head(e.rest) = ","
       THEN ParseMembers(DictSet(acc, k.val.s, e.val), Tail(e.rest))
  ELSE ParseError(<<"Expecting ',' delimiter">>, e.rest)

ParseValue(t) ==
  IF t = <<>> THEN ParseError(<<"Expecting value">>, t)
  ELSE IF Head(t) = "null" THEN Parsed(PyNone, Tail(t))
  ELSE IF Head(t) = "\"" THEN ParseString(Tail(t))
  ELSE IF IsDigit(Head(t)) THEN ParseNumber(t)
  ELSE IF Head(t) = "["
       THEN IF Tail(t) # <<>> /\ Head(Tail(t)) = "]"
            THEN Parsed(PyList(<<>>), Tail(Tail(t)))
            ELSE ParseElements(<<>>, Tail(t))
  ELSE IF Head(t) = "{"
       THEN IF Tail(t) # <<>> /\ Head(Tail(t)) = "}"
            THEN Parsed(PyDict(<<>>, <<>>), Tail(Tail(t)))
            ELSE ParseMembers(PyDict(<<>>, <<>>), Tail(t))
  ELSE ParseError(<<"Expecting value">>, t)

\* json.loads(text): one value and nothing after it
JsonLoads(text) ==
  LET r == ParseValue(text) IN
  IF r.ok /\ r.rest # <<>> THEN ParseError(<<"Extra data">>, r.rest) ELSE r

(***************************************************************************)
(* The operations of lines 76-87 on a decoded value, each with the         *)
(* exception Python raises when the value has no such operation.  A result *)
(* is [exc, val]: exc is "" when nothing was raised.                       *)
(***************************************************************************)
Value(v) == [exc |-> "", val |-> v]

Raise(type) == [exc |-> type, val |-> PyNone]

\* key in v
In(key, v) ==
  CASE v.t = "dict" -> Value(KeyIndex(v, key) # 0)
    [] v.t = "list" -> Value(\E i \in 1..Len(v.items) : v.items[i] = PyStr(key))
    [] v.t = "str" -> Value(Contains(key, v.s))
    [] OTHER -> Raise("TypeError")

\* v[key], key a str
GetItem(v, key) ==
  CASE v.t = "dict" -> IF KeyIndex(v, key) # 0
                       THEN Value(v.items[KeyIndex(v, key)])
                       ELSE Raise("KeyError")
    [] OTHER -> Raise("TypeError")

\* len(v)
PyLen(v) ==
  CASE v.t = "dict" -> Value(Len(v.keys))
    [] v.t = "list" -> Value(Len(v.items))
    [] v.t = "str" -> Value(Len(v.s))
    [] OTHER -> Raise("TypeError")

\* v[0]; the keys of a decoded dict are all str, so 0 is never one of them
First(v) ==
  CASE v.t = "list" -> IF v.items # <<>> THEN Value(v.items[1]) ELSE Raise("IndexError")
    [] v.t = "str" -> IF v.s # <<>> THEN Value(PyStr(<<v.s[1]>>)) ELSE Raise("IndexError")
    [] v.t = "dict" -> Raise("KeyError")
    [] OTHER -> Raise("TypeError")

\* v.get(key, default)
Get(v, key, default) ==
  IF v.t = "dict"
  THEN Value(IF KeyIndex(v, key) # 0 THEN v.items[KeyIndex(v, key)] ELSE default)
  ELSE Raise("AttributeError")

(***************************************************************************)
(* The environment of the process.                                         *)
(***************************************************************************)
\* a variable that is unset reads as None
ApiKeys == {PyNone, PyStr(<<>>), PyStr(<<"ur_", "k1">>), PyStr(<<"ur_", "k2">>)}

ApiUrls == {PyNone, PyStr(<<>>), PyStr(<<"localhost", ":", "8084">>),
            PyStr(<<"https://", "api.uniroute.example">>)}

Environs == [UNIROUTE_API_KEY : ApiKeys, UNIROUTE_API_URL : ApiUrls]

\* os.getenv(name, default)
Getenv(environ, name, default) ==
  IF environ[name].t = "NoneType" THEN default ELSE environ[name]

DefaultApiUrl == PyStr(<<"http://", "localhost", ":", "8084">>)

(***************************************************************************)
(* The bodies a server may answer with.                                    *)
(***************************************************************************)
Key(name) == <<name>>

EmptyDict == PyDict(<<>>, <<>>)

\* a dict of the members of fields (a sequence of <<key, value>>) whose
\* index is in present
RECURSIVE DictOf(_, _, _)
DictOf(fields, present, i) ==
  IF i = 0 THEN EmptyDict
  ELSE IF i \in present
       THEN DictSet(DictOf(fields, present, i - 1), Key(fields[i][1]), fields[i][2])
       ELSE DictOf(fields, present, i - 1)

Contents == {PyStr(<<"Hi">>), PyStr(<<>>), PyNone}

MessageValues ==
  {EmptyDict, PyNone, PyStr(<<"Hi">>)}
  \cup {PyDict(<<Key("content")>>, <<c>>) : c \in Contents}
  \cup {PyDict(<<Key("role"), Key("content")>>, <<PyStr(<<"assistant">>), PyStr(<<"Hi">>)>>)}

ChoiceValues ==
  {EmptyDict, PyNone, PyStr(<<"Hi">>)}
  \cup {PyDict(<<Key("message")>>, <<m>>) : m \in MessageValues}

\* the choices after the first
LaterChoiceValues ==
  {PyDict(<<Key("message")>>, <<PyDict(<<Key("content")>>, <<PyStr(<<"Later">>)>>)>>), PyInt(7)}

ChoiceLists ==
  {<<>>} \cup
  UNION {{<<c>> \o rest : c \in ChoiceValues, rest \in [1..(n - 1) -> LaterChoiceValues]}
         : n \in 1..MaxChoices}

ChoicesValues ==
  {PyList(l) : l \in ChoiceLists}
  \cup {PyNone, EmptyDict, PyInt(1), PyStr(<<>>), PyStr(<<"Hi">>),
        PyDict(<<Key("message")>>, <<EmptyDict>>)}

TokenCounts == {0, MaxTokens}

UsageDicts ==
  {DictOf(<<<<"prompt_tokens", PyInt(p)>>, <<"completion_tokens", PyInt(c)>>,
            <<"total_tokens", PyInt(t)>>>>, present, 3)
     : p \in TokenCounts, c \in TokenCounts, t \in TokenCounts, present \in SUBSET (1..3)}

UsageValues ==
  UsageDicts
  \cup {PyNone, PyInt(5), PyList(<<>>), PyStr(<<"Hi">>),
        PyDict(<<Key("total_tokens")>>, <<PyNone>>)}

GoodChoices == PyList(<<PyDict(<<Key("message")>>, <<PyDict(<<Key("content")>>, <<PyStr(<<"Hi">>)>>)>>)>>)

GoodUsage ==
  PyDict(<<Key("prompt_tokens"), Key("completion_tokens"), Key("total_tokens")>>,
         <<PyInt(5), PyInt(3), PyInt(8)>>)

\* the values a body may encode: every choices with a few usage, every usage
\* with a few choices, and the values that are no dict
ResponseValues ==
  {DictOf(<<<<"choices", c>>, <<"usage", u>>>>, present, 2)
     : c \in ChoicesValues, u \in {GoodUsage, PyNone}, present \in SUBSET (1..2)}
  \cup {DictOf(<<<<"choices", c>>, <<"usage", u>>>>, present, 2)
     : c \in {GoodChoices}, u \in UsageValues, present \in {{2}, {1, 2}}}
  \cup {PyNone, PyInt(5), PyList(<<>>), PyList(<<PyStr(Key("choices"))>>),
        PyList(<<PyStr(Key("usage"))>>), PyStr(Key("choices")), PyStr(Key("usage")),
        PyStr(<<"Hi">>)}

\* text that is no JSON: nothing, a page of HTML, a body cut short, a body
\* with text after its value
MalformedBodies ==
  {<<>>, <<"<html>", "Bad Gateway", "</html>">>, <<"[", "]", "]">>, <<"0", "1">>,
   <<"{", "\"", "choices", "\"", ":", "[", "]", ",", "}">>}
  \cup {SubSeq(Encode(v), 1, Len(Encode(v)) - 1)
          : v \in {DictOf(<<<<"choices", GoodChoices>>, <<"usage", GoodUsage>>>>, {1, 2}, 2)}}

Bodies == {Encode(v) : v \in ResponseValues} \cup MalformedBodies

(***************************************************************************)
(* requests.post and response.raise_for_status().                          *)
(***************************************************************************)
Exception(type, str) == [type |-> type, str |-> str]

NoException == Exception("", <<>>)

Response(status_code, reason, text) ==
  [status_code |-> status_code, reason |-> reason, text |-> text]

NoResponse == Response(0, "", <<>>)

\* the status lines a server may answer with
StatusLines ==
  {<<102, "Processing">>, <<200, "OK">>, <<201, "Created">>, <<304, "Not Modified">>,
   <<404, "Not Found">>, <<503, "Service Unavailable">>}

\* requests has a connection adapter for the http and https schemes only
HasAdapter(url) == url # <<>> /\ Head(url) \in {"http://", "https://"}

\* the exception requests.post raises for a URL it has no adapter for
UrlError(url) ==
  IF Contains(<<":">>, url)
  THEN Exception("InvalidSchema",
                 <<"No connection adapters were found for '">> \o url \o <<"'">>)
  ELSE Exception("MissingSchema",
                 <<"Invalid URL '">> \o url \o <<"': No scheme supplied. Perhaps you meant https://">>
                 \o url \o <<"?">>)

\* the exceptions requests.post raises when no response is obtained from url
NetworkErrors(url) ==
  LET pool == <<"HTTP", "Connection", "Pool(host='">> \o SubSeq(url, 2, Len(url))
              \o <<"'): ">>
      conn == <<"<urllib3.connection.HTTP", "Connection", " object>">>
  IN {Exception("ConnectionError",
                pool \o <<"Max retries exceeded with url: /v1/chat (Caused by NewConnectionError('">>
                \o conn \o <<": Failed to establish a new connection: [Errno 111] ",
                             "Connection", " refused'))">>),
      Exception("ConnectionError",
                pool \o <<"Max retries exceeded with url: /v1/chat (Caused by NameResolutionError(\"">>
                \o conn \o <<": Failed to resolve host\"))">>),
      Exception("ConnectTimeout",
                pool \o <<"Max retries exceeded with url: /v1/chat (Caused by ConnectTimeoutError(">>
                \o conn \o <<", '", "Connection", " to host timed out. (connect timeout=30)'))">>),
      Exception("ReadTimeout", pool \o <<"Read timed out. (read timeout=30)">>),
      Exception("TooManyRedirects", <<"Exceeded 30 redirects.">>)}

\* IsHttpError with a slip: only the 5xx statuses raise
IsServerError(status_code) == 500 <= status_code /\ status_code < 600

\* whether response.raise_for_status() raises
IsHttpError(status_code) == 400 <= status_code /\ status_code < 600

\* the HTTPError response.raise_for_status() raises
HttpError(r, url) ==
  Exception("HTTPError",
            Digits(r.status_code)
            \o <<IF r.status_code < 500 THEN " Client Error: " ELSE " Server Error: ",
                 r.reason, " for url: ">> \o url)

(***************************************************************************)
(* The lines main() prints.                                                *)
(***************************************************************************)
MissingKeyLines ==
  <<<<":x: Error: UNIROUTE_API_KEY environment variable is required">>,
    <<>>,
    <<"Get your API key:">>,
    <<"  1. Run: uniroute keys create">>,
    <<"  2. Export: export UNIROUTE_API_KEY='ur_your_key_here'">>>>

RequestErrorLine(e) == <<":x: Error sending request: ">> \o e.str

HintLines ==
  <<<<>>, <<":bulb: Make sure UniRoute server is running:">>, <<"  make dev">>>>

ParseErrorLine(e) == <<":x: Error parsing response: ">> \o e.str

RawBodyLine(r) == <<"Response: ">> \o r.text

BannerLines == <<<<":white_check_mark: Chat Response:">>, <<>>>>

MessageLine(content) == <<":speech_balloon: ">> \o Format(content)

UsageLine(prompt_tokens, completion_tokens, total_tokens) ==
  <<":bar_chart: Tokens: ">> \o Format(prompt_tokens) \o <<" prompt + ">>
  \o Format(completion_tokens) \o <<" completion = ">>
  \o Format(total_tokens) \o <<" total">>

\* the chat request of lines 33-43
RequestData ==
  [model |-> "gpt-4",
   messages |-> <<[role |-> "user",
                   content |-> "Hello! Explain what UniRoute is in one sentence."]>>,
   temperature |-> [tenths |-> 7],
   max_tokens |-> 100]

NoRequestData == [model |-> "", messages |-> <<>>, temperature |-> [tenths |-> 0], max_tokens |-> 0]

(***************************************************************************)
(* Lines 76-80 and 82-87 on the decoded value: the lines printed, and the  *)
(* exception that ends them, "" when there is none.                        *)
(***************************************************************************)
Printed(lines, exc) == [lines |-> lines, exc |-> exc]

RenderMessage(chat_response) ==
  LET has == In(Key("choices"), chat_response) IN
  IF has.exc # "" THEN Printed(<<>>, has.exc)
  ELSE IF ~has.val THEN Printed(<<<<>>>>, "")
  ELSE LET choices == GetItem(chat_response, Key("choices")) IN
  IF choices.exc # "" THEN Printed(<<>>, choices.exc)
  ELSE LET n == PyLen(choices.val) IN
  IF n.exc # "" THEN Printed(<<>>, n.exc)
  ELSE IF ~(n.val > 0) THEN Printed(<<<<>>>>, "")
  ELSE LET first == First(choices.val) IN
  IF first.exc # "" THEN Printed(<<>>, first.exc)
  ELSE LET message == Get(first.val, Key("message"), EmptyDict) IN
  IF message.exc # "" THEN Printed(<<>>, message.exc)
  ELSE LET content == Get(message.val, Key("content"), PyStr(<<>>)) IN
  IF content.exc # "" THEN Printed(<<>>, content.exc)
  ELSE Printed(<<MessageLine(content.val), <<>>>>, "")

RenderUsage(chat_response) ==
  LET has == In(Key("usage"), chat_response) IN
  IF has.exc # "" THEN Printed(<<>>, has.exc)
  ELSE IF ~has.val THEN Printed(<<>>, "")
  ELSE LET usage == GetItem(chat_response, Key("usage")) IN
  IF usage.exc # "" THEN Printed(<<>>, usage.exc)
  ELSE LET prompt_tokens == Get(usage.val, Key("prompt_tokens"), PyInt(0))
           completion_tokens == Get(usage.val, Key("completion_tokens"), PyInt(0))
           total_tokens == Get(usage.val, Key("total_tokens"), PyInt(0))
       IN
  IF prompt_tokens.exc # "" THEN Printed(<<>>, prompt_tokens.exc)
  ELSE Printed(<<UsageLine(prompt_tokens.val, completion_tokens.val, total_tokens.val)>>, "")

(***************************************************************************)
(* The state of one run of main().                                         *)
(***************************************************************************)
VARIABLES
  environ,        \* os.environ, read only
  pc,             \* the statement main() is at
  api_key,        \* line 20
  api_url,        \* line 30
  request_data,   \* line 33
  sent,           \* the requests handed to requests.post, in order
  response,       \* line 47
  raised,         \* the exception in flight or last caught
  chat_response,  \* line 67
  stdout,         \* the lines printed, in order
  exit_code       \* the exit status, -1 while the process runs

vars == <<environ, pc, api_key, api_url, request_data, sent, response, raised,
          chat_response, stdout, exit_code>>

Running == -1

Init ==
  /\ environ \in Environs
  /\ pc = "getenv_api_key"
  /\ api_key = PyNone
  /\ api_url = PyNone
  /\ request_data = NoRequestData
  /\ sent = <<>>
  /\ response = NoResponse
  /\ raised = NoException
  /\ chat_response = PyNone
  /\ stdout = <<>>
  /\ exit_code = Running

\* sys.exit(code), and the return of main() with code 0
Exit(code) == pc' = "exit" /\ exit_code' = code

\* an exception no handler catches: the interpreter prints the traceback to
\* stderr and exits with status 1
Uncaught(type) == raised' = Exception(type, <<>>) /\ Exit(1)

\* line 20
GetApiKey ==
  /\ pc = "getenv_api_key"
  /\ api_key' = Getenv(environ, "UNIROUTE_API_KEY", PyNone)
  /\ pc' = "check_api_key"
  /\ UNCHANGED <<environ, api_url, request_data, sent, response, raised,
                 chat_response, stdout, exit_code>>

\* lines 21-27
CheckApiKey ==
  /\ pc = "check_api_key"
  /\ IF ~Truthy(api_key)
     THEN stdout' = stdout \o MissingKeyLines /\ Exit(1)
     ELSE pc' = "getenv_api_url" /\ UNCHANGED <<stdout, exit_code>>
  /\ UNCHANGED <<environ, api_key, api_url, request_data, sent, response, raised,
                 chat_response>>

\* line 30
GetApiUrl ==
  /\ pc = "getenv_api_url"
  /\ api_url' = Getenv(environ, "UNIROUTE_API_URL", DefaultApiUrl)
  /\ pc' = "build_request"
  /\ UNCHANGED <<environ, api_key, request_data, sent, response, raised,
                 chat_response, stdout, exit_code>>

\* lines 33-43
BuildRequest ==
  /\ pc = "build_request"
  /\ request_data' = RequestData
  /\ pc' = "post"
  /\ UNCHANGED <<environ, api_key, api_url, sent, response, raised,
                 chat_response, stdout, exit_code>>

\* PostRequest with a slip: the credential is left out of the header
PostRequestWithoutCredential ==
  [method |-> "POST",
   url |-> Format(api_url) \o <<"/v1/chat">>,
   json |-> request_data,
   headers |-> [Content_Type |-> <<"application/json">>,
                Authorization |-> <<"Bearer ">>],
   timeout |-> 30]

\* the call of lines 47-55
PostRequest ==
  [method |-> "POST",
   url |-> Format(api_url) \o <<"/v1/chat">>,
   json |-> request_data,
   headers |-> [Content_Type |-> <<"application/json">>,
                Authorization |-> <<"Bearer ">> \o Format(api_key)],
   timeout |-> 30]

\* lines 47-55: requests.post raises, or returns the server's response
Post ==
  /\ pc = "post"
  /\ sent' = Append(sent, PostRequest)
  /\ IF ~HasAdapter(PostRequest.url)
     THEN /\ raised' = UrlError(PostRequest.url)
          /\ pc' = "except_request"
          /\ UNCHANGED response
     ELSE \/ \E e \in NetworkErrors(PostRequest.url) :
               /\ raised' = e
               /\ pc' = "except_request"
               /\ UNCHANGED response
          \/ \E st \in StatusLines, text \in Bodies :
               /\ response' = Response(st[1], st[2], text)
               /\ pc' = "raise_for_status"
               /\ UNCHANGED raised
  /\ UNCHANGED <<environ, api_key, api_url, request_data, chat_response, stdout,
                 exit_code>>

\* line 56
RaiseForStatus ==
  /\ pc = "raise_for_status"
  /\ IF IsHttpError(response.status_code)
     THEN raised' = HttpError(response, PostRequest.url) /\ pc' = "except_request"
     ELSE pc' = "json" /\ UNCHANGED raised
  /\ UNCHANGED <<environ, api_key, api_url, request_data, sent, response,
                 chat_response, stdout, exit_code>>

\* ExceptRequest with a slip: the hint is printed whatever the failure text
ExceptRequestAlwaysHints ==
  /\ pc = "except_request"
  /\ stdout' = stdout \o <<<<":x: Error sending request: ">> \o raised.str>>
                \o <<<<>>, <<":bulb: Make sure UniRoute server is running:">>,
                      <<"  make dev">>>>
  /\ pc' = "exit"
  /\ exit_code' = 1
  /\ UNCHANGED <<environ, api_key, api_url, request_data, sent, response, raised,
                 chat_response>>

\* ExceptRequest with a slip: the request is sent again instead of exiting
ExceptRequestRetries ==
  /\ pc = "except_request"
  /\ stdout' = stdout \o <<<<":x: Error sending request: ">> \o raised.str>>
  /\ pc' = "post"
  /\ UNCHANGED <<environ, api_key, api_url, request_data, sent, response, raised,
                 chat_response, exit_code>>

\* lines 57-63
ExceptRequest ==
  /\ pc = "except_request"
  /\ stdout' = stdout \o <<RequestErrorLine(raised)>>
                \o (IF Contains(<<"Connection">>, raised.str) THEN HintLines ELSE <<>>)
  /\ Exit(1)
  /\ UNCHANGED <<environ, api_key, api_url, request_data, sent, response, raised,
                 chat_response>>

\* line 67
Json ==
  /\ pc = "json"
  /\ LET r == JsonLoads(response.text) IN
     IF r.ok
     THEN chat_response' = r.val /\ pc' = "print_banner" /\ UNCHANGED raised
     ELSE /\ raised' = Exception("JSONDecodeError", r.msg)
          /\ pc' = "except_decode"
          /\ UNCHANGED chat_response
  /\ UNCHANGED <<environ, api_key, api_url, request_data, sent, response, stdout,
                 exit_code>>

\* ExceptDecode with a slip: the body is not echoed
ExceptDecodeWithoutBody ==
  /\ pc = "except_decode"
  /\ stdout' = stdout \o <<<<":x: Error parsing response: ">> \o raised.str>>
  /\ pc' = "exit"
  /\ exit_code' = 1
  /\ UNCHANGED <<environ, api_key, api_url, request_data, sent, response, raised,
                 chat_response>>

\* lines 68-71
ExceptDecode ==
  /\ pc = "except_decode"
  /\ stdout' = stdout \o <<ParseErrorLine(raised), RawBodyLine(response)>>
  /\ Exit(1)
  /\ UNCHANGED <<environ, api_key, api_url, request_data, sent, response, raised,
                 chat_response>>

\* lines 74-75
PrintBanner ==
  /\ pc = "print_banner"
  /\ stdout' = stdout \o BannerLines
  /\ pc' = "print_message"
  /\ UNCHANGED <<environ, api_key, api_url, request_data, sent, response, raised,
                 chat_response, exit_code>>

\* lines 76-80
PrintMessage ==
  /\ pc = "print_message"
  /\ LET r == RenderMessage(chat_response) IN
     /\ stdout' = stdout \o r.lines
     /\ IF r.exc # "" THEN Uncaught(r.exc)
        ELSE pc' = "print_usage" /\ UNCHANGED <<raised, exit_code>>
  /\ UNCHANGED <<environ, api_key, api_url, request_data, sent, response,
                 chat_response>>

\* lines 82-87, and the return of main()
PrintUsage ==
  /\ pc = "print_usage"
  /\ LET r == RenderUsage(chat_response) IN
     /\ stdout' = stdout \o r.lines
     /\ IF r.exc # "" THEN Uncaught(r.exc)
        ELSE Exit(0) /\ UNCHANGED raised
  /\ UNCHANGED <<environ, api_key, api_url, request_data, sent, response,
                 chat_response>>

Next ==
  \/ GetApiKey
  \/ CheckApiKey
  \/ GetApiUrl
  \/ BuildRequest
  \/ Post
  \/ RaiseForStatus
  \/ ExceptRequest
  \/ Json
  \/ ExceptDecode
  \/ PrintBanner
  \/ PrintMessage
  \/ PrintUsage

Spec == Init /\ [][Next]_vars

(***************************************************************************)
(* What a finished run shows.                                              *)
(***************************************************************************)
HasLine(line) == \E i \in 1..Len(stdout) : stdout[i] = line

\* the positions of the printed lines that open with marker
LinesWith(marker) == {i \in 1..Len(stdout) : stdout[i] # <<>> /\ stdout[i][1] = marker}

Exited == pc = "exit"

KeyMissing ==
  environ.UNIROUTE_API_KEY = PyNone \/ environ.UNIROUTE_API_KEY = PyStr(<<>>)

BannerPrinted == HasLine(<<":white_check_mark: Chat Response:">>)

\* the endpoint the environment names
Endpoint ==
  IF environ.UNIROUTE_API_URL = PyNone
  THEN <<"http://", "localhost", ":", "8084">>
  ELSE environ.UNIROUTE_API_URL.s

(***************************************************************************)
(* C1: with UNIROUTE_API_KEY unset or empty the run never gets past the    *)
(* check of the key: nothing is handed to requests.post, and when the run  *)
(* has ended it has printed the remediation text, and only that, and the   *)
(* exit status is 1, whatever UNIROUTE_API_URL holds.                      *)
(***************************************************************************)
C1_MissingKeyExitsWithoutRequest ==
  KeyMissing =>
    /\ sent = <<>>
    /\ response = NoResponse
    /\ pc \in {"getenv_api_key", "check_api_key", "exit"}
    /\ Exited => exit_code = 1 /\ stdout = MissingKeyLines

C1_Witness ==
  /\ Exited
  /\ environ.UNIROUTE_API_KEY = PyStr(<<>>)
  /\ environ.UNIROUTE_API_URL = PyStr(<<"https://", "api.uniroute.example">>)
  /\ exit_code = 1
  /\ stdout = MissingKeyLines

(***************************************************************************)
(* C2: every request handed to requests.post is a POST to                  *)
(* {endpoint}/v1/chat whose Authorization header is "Bearer " followed by  *)
(* the credential of the environment, and that credential is a non-empty   *)
(* string.                                                                 *)
(***************************************************************************)
C2_RequestCarriesCredential ==
  \A i \in 1..Len(sent) :
    /\ environ.UNIROUTE_API_KEY.t = "str"
    /\ environ.UNIROUTE_API_KEY.s # <<>>
    /\ sent[i].method = "POST"
    /\ sent[i].url = Endpoint \o <<"/v1/chat">>
    /\ sent[i].headers.Authorization = <<"Bearer ">> \o environ.UNIROUTE_API_KEY.s

C2_Witness ==
  /\ Len(sent) = 1
  /\ response.status_code = 200
  /\ sent[1].headers.Authorization = <<"Bearer ", "ur_", "k2">>

(***************************************************************************)
(* C3: a run that has ended has exit status 0 exactly when it printed the  *)
(* success banner, and otherwise status 1 after one of the three failure   *)
(* messages.                                                               *)
(***************************************************************************)
C3_ExitZeroIffRendered ==
  Exited =>
    /\ exit_code \in {0, 1}
    /\ exit_code = 0 <=> BannerPrinted
    /\ exit_code = 1 =>
         \/ stdout = MissingKeyLines
         \/ LinesWith(":x: Error sending request: ") = {1}
         \/ LinesWith(":x: Error parsing response: ") = {1}

(***************************************************************************)
(* C4, as claimed: a response whose status is outside 200..299 is never    *)
(* decoded, and the run ends with the 'Error sending request' message and  *)
(* exit status 1.                                                          *)
(***************************************************************************)
C4_Non2xxIsTransportFailure ==
  (response # NoResponse /\ response.status_code \notin 200..299) =>
    /\ pc \in {"raise_for_status", "except_request", "exit"}
    /\ chat_response = PyNone
    /\ Exited => exit_code = 1 /\ LinesWith(":x: Error sending request: ") = {1}

(***************************************************************************)
(* C4, amended: a response whose status is in 400..599 is never decoded,   *)
(* and the run ends with the 'Error sending request' message alone (or     *)
(* followed by the hint) and exit status 1.                                *)
(***************************************************************************)
C4_ErrorStatusIsTransportFailure ==
  (response # NoResponse /\ response.status_code \in 400..599) =>
    /\ pc \in {"raise_for_status", "except_request", "exit"}
    /\ chat_response = PyNone
    /\ ~BannerPrinted
    /\ LinesWith(":x: Error parsing response: ") = {}
    /\ Exited => exit_code = 1 /\ LinesWith(":x: Error sending request: ") = {1}

C4_Witness ==
  /\ Exited
  /\ response.status_code = 404
  /\ exit_code = 1
  /\ LinesWith(":x: Error sending request: ") = {1}

(***************************************************************************)
(* C5, as claimed: when requests.post obtains no response (connection      *)
(* refused, DNS failure, timeout, or an endpoint that cannot be reached at *)
(* all), the run ends with exit status 1 after the 'Error sending request' *)
(* message and the hint to start the server.                               *)
(***************************************************************************)
C5_UnreachableAlwaysHints ==
  (Exited /\ sent # <<>> /\ response = NoResponse
     /\ raised.type \in {"ConnectionError", "ConnectTimeout", "ReadTimeout",
                         "InvalidSchema", "MissingSchema"}) =>
    /\ exit_code = 1
    /\ stdout = <<RequestErrorLine(raised)>> \o HintLines

(***************************************************************************)
(* C5, amended: when requests.post obtains no response the run ends with   *)
(* exit status 1 after the 'Error sending request' message; the hint       *)
(* follows when the connection was refused, the host did not resolve or    *)
(* the request timed out, and does not follow when the endpoint is a URL   *)
(* requests has no adapter for.                                            *)
(***************************************************************************)
C5_HintFollowsConnectionFailures ==
  (Exited /\ sent # <<>> /\ response = NoResponse) =>
    /\ exit_code = 1
    /\ stdout[1] = <<":x: Error sending request: ">> \o raised.str
    /\ raised.type \in {"ConnectionError", "ConnectTimeout", "ReadTimeout"} =>
         stdout = <<RequestErrorLine(raised)>> \o HintLines
    /\ raised.type \in {"InvalidSchema", "MissingSchema"} =>
         stdout = <<RequestErrorLine(raised)>>
    /\ (Len(stdout) > 1) <=> (\E i \in 1..Len(raised.str) : raised.str[i] = "Connection")

C5_Witness ==
  /\ Exited
  /\ raised.type = "ConnectTimeout"
  /\ exit_code = 1
  /\ HasLine(<<":bulb: Make sure UniRoute server is running:">>)

(***************************************************************************)
(* C6: a run whose 2xx response has a body that is no JSON ends with exit  *)
(* status 1 after printing the parse error and then the body as received,  *)
(* and nothing else; and in every run the banner is printed only once the  *)
(* body has been decoded.                                                  *)
(***************************************************************************)
C6_DecodeFailureEchoesBody ==
  /\ (Exited /\ response.status_code \in 200..299 /\ ~JsonLoads(response.text).ok) =>
       /\ exit_code = 1
       /\ Len(stdout) = 2
       /\ stdout[1] = <<":x: Error parsing response: ">> \o JsonLoads(response.text).msg
       /\ stdout[2] = <<"Response: ">> \o response.text
  /\ BannerPrinted =>
       /\ JsonLoads(response.text).ok
       /\ chat_response = JsonLoads(response.text).val
       /\ LinesWith(":x: Error parsing response: ") = {}

C6_Witness ==
  /\ Exited
  /\ response.status_code = 200
  /\ response.text = <<"<html>", "Bad Gateway", "</html>">>
  /\ stdout[2] = <<"Response: ", "<html>", "Bad Gateway", "</html>">>
  /\ exit_code = 1

(***************************************************************************)
(* The fields of a decoded response that lines 76-87 read.                 *)
(***************************************************************************)
\* the choices of the response: the empty list when it names none
ChoicesOf(v) ==
  IF v.t = "dict" /\ KeyIndex(v, Key("choices")) # 0
  THEN v.items[KeyIndex(v, Key("choices"))]
  ELSE PyList(<<>>)

ChoicesNonEmpty(v) == ChoicesOf(v).t = "list" /\ ChoicesOf(v).items # <<>>

\* field key of v, default when v is no dict or has no such field
FieldOr(v, key, default) ==
  IF v.t = "dict" /\ KeyIndex(v, Key(key)) # 0 THEN v.items[KeyIndex(v, Key(key))]
  ELSE default

UsagePresent(v) == v.t = "dict" /\ KeyIndex(v, Key("usage")) # 0

Decoded == Exited /\ BannerPrinted

(***************************************************************************)
(* C7: after a response was decoded, the message line is printed exactly   *)
(* when choices is present and non-empty; it then carries the content of   *)
(* the message of the first choice, the empty string when message or       *)
(* content is absent; with choices empty or absent the run prints no       *)
(* message line and exits with status 0.                                   *)
(***************************************************************************)
C7_MessageLineIffChoices ==
  Decoded =>
    /\ ChoicesNonEmpty(chat_response) <=> LinesWith(":speech_balloon: ") # {}
    /\ ChoicesNonEmpty(chat_response) =>
         HasLine(<<":speech_balloon: ">>
                 \o Format(FieldOr(FieldOr(ChoicesOf(chat_response).items[1],
                                           "message", EmptyDict),
                                   "content", PyStr(<<>>))))
    /\ ~ChoicesNonEmpty(chat_response) => exit_code = 0

(***************************************************************************)
(* C8: after a response was decoded, exactly one token summary line is     *)
(* printed when usage is present and none when it is absent; the line      *)
(* carries prompt_tokens, completion_tokens and total_tokens of the usage  *)
(* record as reported, 0 for a field that is missing.                      *)
(***************************************************************************)
C8_UsageLineIffUsage ==
  Decoded =>
    /\ UsagePresent(chat_response) => Cardinality(LinesWith(":bar_chart: Tokens: ")) = 1
    /\ ~UsagePresent(chat_response) => LinesWith(":bar_chart: Tokens: ") = {}
    /\ UsagePresent(chat_response) =>
         LET usage == FieldOr(chat_response, "usage", EmptyDict) IN
         stdout[Len(stdout)] =
           <<":bar_chart: Tokens: ">> \o Format(FieldOr(usage, "prompt_tokens", PyInt(0)))
           \o <<" prompt + ">> \o Format(FieldOr(usage, "completion_tokens", PyInt(0)))
           \o <<" completion = ">> \o Format(FieldOr(usage, "total_tokens", PyInt(0)))
           \o <<" total">>

(***************************************************************************)
(* C9: a run ends either rendered with exit status 0, or with exit status  *)
(* 1 through one of the three handled failures: the missing credential,    *)
(* an exception of requests, a JSON decode error.  No other exception ends *)
(* a run.                                                                  *)
(***************************************************************************)
C9_EveryErrorIsHandled ==
  Exited =>
    \/ exit_code = 0 /\ raised = NoException
    \/ exit_code = 1 /\ raised = NoException /\ stdout = MissingKeyLines
    \/ exit_code = 1 /\ HasLine(RequestErrorLine(raised))
         /\ raised.type \in {"ConnectionError", "ConnectTimeout", "ReadTimeout",
                             "TooManyRedirects", "InvalidSchema", "MissingSchema",
                             "HTTPError"}
    \/ exit_code = 1 /\ HasLine(ParseErrorLine(raised))
         /\ raised.type = "JSONDecodeError"

(***************************************************************************)
(* C10: requests.post is called at most once in a run; a run that has      *)
(* ended called it not at all when the credential is missing and exactly   *)
(* once otherwise, also after a transport or a decode failure.             *)
(***************************************************************************)
C10_AtMostOnePost ==
  /\ Len(sent) <= 1
  /\ pc \in {"raise_for_status", "except_request", "json", "except_decode",
             "print_banner", "print_message", "print_usage"} => Len(sent) = 1
  /\ Exited => Len(sent) = (IF KeyMissing THEN 0 ELSE 1)

C10_Witness ==
  /\ Exited
  /\ Len(sent) = 1
  /\ raised.type = "JSONDecodeError"
  /\ exit_code = 1

====
